---- MODULE Spec2Model ----
(***************************************************************************)
(* Model of the ChessCoachPro session component (src/unnamed/part_000).    *)
(*                                                                         *)
(* The component is a React function component: every handler is a        *)
(* closure over the state values of the render that created it.  A click  *)
(* handler always belongs to the latest render, so it reads the current   *)
(* state.  A callback handed to setTimeout keeps the closure of the       *)
(* render in which it was scheduled: it reads the board, the move list,   *)
(* the side to move, the evaluation and the settings of THAT render and   *)
(* writes the session state through the setters.  The model keeps those   *)
(* captured values in the pending task.                                    *)
(*                                                                         *)
(* Evaluations are kept in hundredths (the code's value times 100).        *)
(* Date.now() timestamps, the notation string, the user profile and the   *)
(* feedback strings are left out.  Real time is kept only as the order    *)
(* the two timers allow: the clock ticks every 1000 ms and a deferred     *)
(* reply runs 500 ms after it was scheduled, so a reply that was pending  *)
(* at one tick has run before the next tick.                              *)
(*                                                                         *)
(* humanApplied, aiApplied, aggCalls, settingsChanged, epoch, ticked,     *)
(* lastEvent and allotment are history variables; the code has no such    *)
(* fields.                                                                 *)
(***************************************************************************)
EXTENDS Integers, Sequences, FiniteSets, TLC

\* ------------------------------------------------------------------ bounds
\* Seconds on each clock at session start (the code's 600, scaled down so
\* that a clock can run out within the bounds).
TimeAllotment == 2
\* Largest number of move applications (human + automated) in one run.
MaxPlies == 3
\* Largest number of resets in one run.
MaxResets == 1
\* Largest number of changes made in the settings dialog in one run.
MaxSettings == 1
\* Largest number of move applications in a scripted run.
ScriptPlies == 6
\* Longest prefix of a sample game whose position is used as an argument.
GameLen == 8
\* Largest magnitude, in hundredths, of an evaluation handed to classifyMove.
EvalBound == 450
\* Longest candidate list handed to the opponent selector.
MaxCands == 6
\* Largest number of move applications in a run that uses the time select.
ClockPlies == 2
\* Largest number of move applications in the session with the queen exchange.
ExchangePlies == 8
\* Longest move history handed to the aggregator on its own (one history of
\* 2 * MaxHistory + 1 moves, more than the 40 that endgameSkill asks for, is
\* added).
MaxHistory == 20

\* ------------------------------------------------------------- board model
Rows == 0..7
Cols == 0..7

\* null in the code
Empty == [type |-> "none", color |-> "none", moved |-> FALSE]

Pc(t, c) == [type |-> t, color |-> c, moved |-> FALSE]

setup0 ==
  <<"rook", "knight", "bishop", "queen", "king", "bishop", "knight", "rook">>

initializeBoard ==
  [r \in Rows |-> [c \in Cols |->
     CASE r = 0 -> Pc(setup0[c + 1], "black")
       [] r = 7 -> Pc(setup0[c + 1], "white")
       [] r = 1 -> Pc("pawn", "black")
       [] r = 6 -> Pc("pawn", "white")
       [] OTHER -> Empty]]

pieceValues(t) ==
  CASE t = "pawn" -> 1
    [] t = "knight" -> 3
    [] t = "bishop" -> 3
    [] t = "rook" -> 5
    [] t = "queen" -> 9
    [] OTHER -> 0

Abs(x) == IF x < 0 THEN -x ELSE x

Other(c) == IF c = "white" THEN "black" ELSE "white"

\* --------------------------------------------------------- legality checker
RECURSIVE PathScan(_, _, _, _, _, _, _)
PathScan(b, currentRow, currentCol, toRow, toCol, rowStep, colStep) ==
  IF currentRow = toRow /\ currentCol = toCol THEN TRUE
  ELSE IF b[currentRow][currentCol] # Empty THEN FALSE
  ELSE PathScan(b, currentRow + rowStep, currentCol + colStep,
                toRow, toCol, rowStep, colStep)

\* A variant of isPathClear that never looks at the squares in between.  That
\* a sliding piece is stopped by a blocker (C12) depends on the difference.
isPathClearOpen(b, fromRow, fromCol, toRow, toCol) == TRUE

isPathClear(b, fromRow, fromCol, toRow, toCol) ==
  LET rowStep == IF toRow > fromRow THEN 1 ELSE IF toRow < fromRow THEN -1 ELSE 0
      colStep == IF toCol > fromCol THEN 1 ELSE IF toCol < fromCol THEN -1 ELSE 0
  IN  PathScan(b, fromRow + rowStep, fromCol + colStep, toRow, toCol,
               rowStep, colStep)

\* A variant of the pawn case below without the test of the square that a
\* double step passes over.  The pawn rule (C13) depends on the difference.
pawnCaseJumps(b, fromRow, fromCol, toRow, toCol, piece) ==
  LET target == b[toRow][toCol]
      direction == IF piece.color = "white" THEN -1 ELSE 1
      startRow == IF piece.color = "white" THEN 6 ELSE 1
  IN  \/ /\ toCol = fromCol
         /\ target = Empty
         /\ \/ toRow = fromRow + direction
            \/ /\ fromRow = startRow
               /\ toRow = fromRow + 2 * direction
      \/ /\ Abs(toCol - fromCol) = 1
         /\ toRow = fromRow + direction
         /\ target # Empty

\* case 'pawn' of isValidMove.
pawnCase(b, fromRow, fromCol, toRow, toCol, piece) ==
  LET target == b[toRow][toCol]
      direction == IF piece.color = "white" THEN -1 ELSE 1
      startRow == IF piece.color = "white" THEN 6 ELSE 1
  IN  \/ /\ toCol = fromCol
         /\ target = Empty
         /\ \/ toRow = fromRow + direction
            \/ /\ fromRow = startRow
               /\ toRow = fromRow + 2 * direction
               /\ b[fromRow + direction][fromCol] = Empty
      \/ /\ Abs(toCol - fromCol) = 1
         /\ toRow = fromRow + direction
         /\ target # Empty

\* isValidMove reads the board of the enclosing render (b), whatever board
\* its caller iterates over.  piece is never null here; the callers that can
\* pass null are handled by isValidMoveThrows.
isValidMove(b, fromRow, fromCol, toRow, toCol, piece) ==
  IF toRow < 0 \/ toRow > 7 \/ toCol < 0 \/ toCol > 7 THEN FALSE
  ELSE IF fromRow = toRow /\ fromCol = toCol THEN FALSE
  ELSE
    LET target == b[toRow][toCol]
        rowDiff == Abs(toRow - fromRow)
        colDiff == Abs(toCol - fromCol)
    IN
    IF target # Empty /\ target.color = piece.color THEN FALSE
    ELSE
      CASE piece.type = "pawn" ->
             pawnCase(b, fromRow, fromCol, toRow, toCol, piece)
        [] piece.type = "knight" ->
             (rowDiff = 2 /\ colDiff = 1) \/ (rowDiff = 1 /\ colDiff = 2)
        [] piece.type = "bishop" ->
             IF rowDiff # colDiff THEN FALSE
             ELSE isPathClear(b, fromRow, fromCol, toRow, toCol)
        [] piece.type = "rook" ->
             IF fromRow # toRow /\ fromCol # toCol THEN FALSE
             ELSE isPathClear(b, fromRow, fromCol, toRow, toCol)
        [] piece.type = "queen" ->
             IF fromRow # toRow /\ fromCol # toCol /\ rowDiff # colDiff THEN FALSE
             ELSE isPathClear(b, fromRow, fromCol, toRow, toCol)
        [] piece.type = "king" -> rowDiff <= 1 /\ colDiff <= 1
        [] OTHER -> FALSE

\* With piece = null the first two tests still return false; every later
\* path dereferences piece (piece.color or piece.type) and raises TypeError.
isValidMoveThrows(fromRow, fromCol, toRow, toCol, piece) ==
  /\ piece = Empty
  /\ ~(toRow < 0 \/ toRow > 7 \/ toCol < 0 \/ toCol > 7)
  /\ ~(fromRow = toRow /\ fromCol = toCol)

\* ------------------------------------------------------------ move generator
\* The four nested loops, row-major: square k of 0..63 is (k \div 8, k % 8).
\* iter is the board argument (whose pieces are enumerated), b the board of
\* the enclosing render (which isValidMove reads).
\* A variant of Dests that runs through the destinations column by column.
\* The enumeration order (C14) depends on the difference.
DestsColumnMajor == [k \in 1..64 |-> <<(k - 1) % 8, (k - 1) \div 8>>]

Dests == [k \in 1..64 |-> <<(k - 1) \div 8, (k - 1) % 8>>]

MovesFrom(iter, r, c, b) ==
  LET piece == iter[r][c]
      Keep(to) == isValidMove(b, r, c, to[1], to[2], piece)
      kept == SelectSeq(Dests, Keep)
  IN  [i \in 1..Len(kept) |-> [from |-> <<r, c>>, to |-> kept[i]]]

RECURSIVE MovesFromSquare(_, _, _, _)
MovesFromSquare(iter, color, b, k) ==
  IF k > 63 THEN <<>>
  ELSE LET r == k \div 8
           c == k % 8
       IN  IF iter[r][c] # Empty /\ iter[r][c].color = color
           THEN MovesFrom(iter, r, c, b) \o MovesFromSquare(iter, color, b, k + 1)
           ELSE MovesFromSquare(iter, color, b, k + 1)

generateAllPossibleMoves(iter, color, b) == MovesFromSquare(iter, color, b, 0)

\* The first Min(n, N) entries of generateAllPossibleMoves(iter, color, b),
\* N its length: the enumeration above, stopped once n entries are found.
\* The callers that read only a prefix of the list use it.
RECURSIVE TakeMoves(_, _, _, _, _)
TakeMoves(iter, color, b, k, n) ==
  IF k > 63 \/ n <= 0 THEN <<>>
  ELSE LET r == k \div 8
           c == k % 8
       IN  IF iter[r][c] # Empty /\ iter[r][c].color = color
           THEN LET ms == MovesFrom(iter, r, c, b)
                IN  IF Len(ms) >= n THEN SubSeq(ms, 1, n)
                    ELSE ms \o TakeMoves(iter, color, b, k + 1, n - Len(ms))
           ELSE TakeMoves(iter, color, b, k + 1, n)

FirstMoves(iter, color, b, n) == TakeMoves(iter, color, b, 0, n)

Min(a, b) == IF a < b THEN a ELSE b
Max(a, b) == IF a > b THEN a ELSE b


\* --------------------------------------------------------- position evaluator
Squares == {<<r, c>> : r \in Rows, c \in Cols}

\* board.forEach(row => row.forEach(...)) from square k on
RECURSIVE BalanceFrom(_, _)
BalanceFrom(b, k) ==
  IF k > 63 THEN 0
  ELSE LET piece == b[k \div 8][k % 8]
       IN  (IF piece = Empty THEN 0
            ELSE IF piece.color = "white" THEN pieceValues(piece.type)
            ELSE -pieceValues(piece.type))
           + BalanceFrom(b, k + 1)

calculateMaterialBalance(b) == BalanceFrom(b, 0)

\* A variant of evaluatePosition that treats the unmoved knights of both
\* colors alike.  The value of the initial board (C20) depends on the
\* difference.
evaluatePositionSymmetric(b) ==
  LET Center(r, c) == IF b[r][c] = Empty THEN 0
                      ELSE IF b[r][c].color = "white" THEN 3 ELSE -3
      center == Center(3, 3) + Center(3, 4) + Center(4, 3) + Center(4, 4)
      Knight(r, c) == b[r][c] # Empty /\ b[r][c].type = "knight" /\ ~b[r][c].moved
      low == (IF Knight(7, 1) THEN -2 ELSE 0) + (IF Knight(7, 6) THEN -2 ELSE 0)
      high == (IF Knight(0, 1) THEN -2 ELSE 0) + (IF Knight(0, 6) THEN -2 ELSE 0)
  IN  center + low + high

\* A variant of evaluatePosition without the term for the black knights.  The
\* antisymmetry of the evaluation (C21) depends on the difference.
evaluatePositionWhiteOnly(b) ==
  LET Center(r, c) == IF b[r][c] = Empty THEN 0
                      ELSE IF b[r][c].color = "white" THEN 3 ELSE -3
      center == Center(3, 3) + Center(3, 4) + Center(4, 3) + Center(4, 4)
      Knight(r, c) == b[r][c] # Empty /\ b[r][c].type = "knight" /\ ~b[r][c].moved
      low == (IF Knight(7, 1) THEN -2 ELSE 0) + (IF Knight(7, 6) THEN -2 ELSE 0)
  IN  center + low

\* In tenths: 0.3 is 3, 0.2 is 2.
evaluatePosition(b) ==
  LET Center(r, c) == IF b[r][c] = Empty THEN 0
                      ELSE IF b[r][c].color = "white" THEN 3 ELSE -3
      center == Center(3, 3) + Center(3, 4) + Center(4, 3) + Center(4, 4)
      Knight(r, c) == b[r][c] # Empty /\ b[r][c].type = "knight" /\ ~b[r][c].moved
      low == (IF Knight(7, 1) THEN -2 ELSE 0) + (IF Knight(7, 6) THEN -2 ELSE 0)
      high == (IF Knight(0, 1) THEN 2 ELSE 0) + (IF Knight(0, 6) THEN 2 ELSE 0)
  IN  center + low + high

\* (materialBalance + positionScore) / 10, in hundredths.
Evaluation(b) == 10 * calculateMaterialBalance(b) + evaluatePosition(b)

\* ------------------------------------------------------------ move classifier
\* A variant of classifyMove whose mistake tier starts at 1.5 inclusive.  The
\* tier table (C17) depends on the difference.
classifyMoveClosed(previousEval, newEval, player) ==
  LET diff == IF player = "white" THEN previousEval - newEval
              ELSE newEval - previousEval
  IN  IF diff < -200 THEN "brilliant"
      ELSE IF diff < -50 THEN "best"
      ELSE IF diff > 50 /\ diff < 150 THEN "inaccuracy"
      ELSE IF diff >= 150 /\ diff < 300 THEN "mistake"
      ELSE IF diff > 300 THEN "blunder"
      ELSE "good"

\* A variant of classifyMove whose mistake tier ends at 2.5.  The tier of a
\* loss of 2.5 (C19) depends on the difference.
classifyMoveNarrow(previousEval, newEval, player) ==
  LET diff == IF player = "white" THEN previousEval - newEval
              ELSE newEval - previousEval
  IN  IF diff < -200 THEN "brilliant"
      ELSE IF diff < -50 THEN "best"
      ELSE IF diff > 50 /\ diff < 150 THEN "inaccuracy"
      ELSE IF diff > 150 /\ diff < 250 THEN "mistake"
      ELSE IF diff > 300 THEN "blunder"
      ELSE "good"

\* player is the currentPlayer of the enclosing render; evaluations and the
\* thresholds 2, 0.5, 1.5, 3 are in hundredths.
classifyMove(previousEval, newEval, player) ==
  LET diff == IF player = "white" THEN previousEval - newEval
              ELSE newEval - previousEval
  IN  IF diff < -200 THEN "brilliant"
      ELSE IF diff < -50 THEN "best"
      ELSE IF diff > 50 /\ diff < 150 THEN "inaccuracy"
      ELSE IF diff > 150 /\ diff < 300 THEN "mistake"
      ELSE IF diff > 300 THEN "blunder"
      ELSE "good"

\* The symbol field of the classification object of each type.
classificationSymbol(type) ==
  CASE type = "brilliant" -> "!!"
    [] type = "best" -> "!"
    [] type = "inaccuracy" -> "?"
    [] type = "mistake" -> "??"
    [] type = "blunder" -> "???"
    [] OTHER -> ""

\* ---------------------------------------------------------- threat/hint engine
countUndevelopedPieces(b, color) ==
  LET startRow == IF color = "white" THEN 7 ELSE 0
  IN  Cardinality({col \in {1, 2, 5, 6} :
                     b[startRow][col] # Empty /\ ~b[startRow][col].moved})

\* One entry is pushed for every (own piece, attacker) pair; iter is the
\* board argument, b the board of the enclosing render read by isValidMove.
detectThreats(iter, color, b) ==
  LET own == {sq \in Squares : iter[sq[1]][sq[2]] # Empty
                               /\ iter[sq[1]][sq[2]].color = color}
      foes == {sq \in Squares : iter[sq[1]][sq[2]] # Empty
                                /\ iter[sq[1]][sq[2]].color # color}
  IN  {pr \in own \X foes :
         isValidMove(b, pr[2][1], pr[2][2], pr[1][1], pr[1][2],
                     iter[pr[2][1]][pr[2][2]])}

evaluateCenterControl(b, player) ==
  LET Center(r, c) == IF b[r][c] = Empty THEN 0
                      ELSE IF b[r][c].color = player THEN 1 ELSE -1
  IN  Center(3, 3) + Center(3, 4) + Center(4, 3) + Center(4, 4)

Hint(t, n) == [type |-> t, count |-> n]

\* The hints of updateLiveHints(newBoard, ...) run in the render cl; at most
\* three hints exist, so slice(0, 3) keeps them all.
updateLiveHints(newBoard, cl) ==
  LET threats == Cardinality(detectThreats(newBoard, cl.currentPlayer, cl.board))
      opening == IF /\ Len(cl.moves) < 10
                    /\ countUndevelopedPieces(newBoard, cl.currentPlayer) > 2
                 THEN <<Hint("opening", 0)>> ELSE <<>>
      tactical == IF threats > 0 THEN <<Hint("tactical", threats)>> ELSE <<>>
      positional == IF evaluateCenterControl(newBoard, cl.currentPlayer) < -1
                    THEN <<Hint("positional", 0)>> ELSE <<>>
  IN  SubSeq(opening \o tactical \o positional, 1,
             Min(3, Len(opening \o tactical \o positional)))

\* ----------------------------------------------------------- session aggregator
CountType(ms, t) == Cardinality({i \in 1..Len(ms) : ms[i].classification = t})

\* Values of Math.random() * 30, cut to whole numbers: the two ends of [0, 30).
Randoms == {0, 29}

\* The draws one run of generatePostGameAnalysis makes in the render cl: one
\* for positionalAwareness, one more for endgameSkill if moves.length > 40.
RandomDraws(cl) ==
  {<<r1, r2>> : r1 \in Randoms,
                r2 \in IF Len(cl.moves) > 40 THEN Randoms ELSE {0}}

\* The string toFixed(1) returns: "NaN", or a number with one decimal
\* (tenths of a percent).
NaN == [nan |-> TRUE, tenths |-> 0]
Fixed1(tenths) == [nan |-> FALSE, tenths |-> tenths]

\* A variant of toFixedAccuracy that counts the mistakes as accurate moves.
\* The accuracy formula (C24) depends on the difference.
toFixedAccuracyLenient(totalMoves, blunderCount, mistakeCount) ==
  IF totalMoves = 0 THEN NaN
  ELSE Fixed1((2000 * (totalMoves - blunderCount) + totalMoves)
                \div (2 * totalMoves))

\* ((totalMoves - blunderCount - mistakeCount) / totalMoves * 100).toFixed(1):
\* 0 / 0 is NaN and NaN.toFixed(1) is "NaN"; otherwise the quotient rounded to
\* one decimal (for fewer than 80 moves the double rounds as the exact quotient
\* does, a tie going up).
toFixedAccuracy(totalMoves, blunderCount, mistakeCount) ==
  IF totalMoves = 0 THEN NaN
  ELSE Fixed1((2000 * (totalMoves - blunderCount - mistakeCount) + totalMoves)
                \div (2 * totalMoves))

\* accuracy > 80 on the string toFixed returned: "NaN" > 80 is false.
AccuracyAbove80(accuracy) == ~accuracy.nan /\ accuracy.tenths > 800

\* (timeControl.white / 600) * 100, whole percents: TimeAllotment stands for
\* the literal 600, whatever was chosen in the settings.
timeManagement(white) == (100 * white) \div TimeAllotment

\* generatePostGameAnalysis(endReason) run in the render cl with the random
\* draws rnd.  totalMoves to undeveloped and timeWhite are what the run read,
\* accuracy is its local value, the other fields are what it stores through
\* setWeaknesses, setStrengths, setRecommendations and setPerformanceStats.
generatePostGameAnalysis(cl, endReason, rnd) ==
  LET totalMoves == Len(cl.moves)
      brilliantCount == CountType(cl.moves, "brilliant")
      blunderCount == CountType(cl.moves, "blunder")
      mistakeCount == CountType(cl.moves, "mistake")
      undeveloped == countUndevelopedPieces(cl.board, "white")
      accuracy == toFixedAccuracy(totalMoves, blunderCount, mistakeCount)
      tactical == blunderCount > 2
      opening == Len(cl.moves) > 10 /\ undeveloped > 1
  IN  [endReason |-> endReason,
       totalMoves |-> totalMoves,
       brilliantCount |-> brilliantCount,
       blunderCount |-> blunderCount,
       mistakeCount |-> mistakeCount,
       undeveloped |-> undeveloped,
       timeWhite |-> cl.timeControl.white,
       accuracy |-> accuracy,
       weaknesses |->
         (IF tactical THEN <<"Tactical Awareness">> ELSE <<>>)
           \o (IF opening THEN <<"Opening Development">> ELSE <<>>),
       recommendations |->
         (IF tactical THEN <<"Tactical Training">> ELSE <<>>)
           \o (IF opening THEN <<"Opening Principles">> ELSE <<>>),
       strengths |->
         (IF brilliantCount > 1 THEN <<"Strategic Vision">> ELSE <<>>)
           \o (IF AccuracyAbove80(accuracy) THEN <<"Consistency">> ELSE <<>>),
       performanceStats |->
         [tacticalAccuracy |-> Max(0, 100 - blunderCount * 20),
          positionalAwareness |-> rnd[1] + 60,
          endgameSkill |-> IF Len(cl.moves) > 40 THEN rnd[2] + 50 ELSE 0,
          openingKnowledge |-> 100 - undeveloped * 15,
          timeManagement |-> timeManagement(cl.timeControl.white)]]

\* Before the first run: the initial weaknesses, strengths, recommendations
\* and performanceStats; the fields of a run are not set.
NoAnalysis ==
  [endReason |-> "none", totalMoves |-> 0, brilliantCount |-> 0,
   blunderCount |-> 0, mistakeCount |-> 0, undeveloped |-> 0, timeWhite |-> 0,
   accuracy |-> Fixed1(0), weaknesses |-> <<>>, recommendations |-> <<>>,
   strengths |-> <<>>,
   performanceStats |->
     [tacticalAccuracy |-> 0, positionalAwareness |-> 0, endgameSkill |-> 0,
      openingKnowledge |-> 0, timeManagement |-> 0]]


\* ------------------------------------------------------------------- state
VARIABLES
  board,                \* useState(initializeBoard())
  selected,             \* <<row, col>> or NoSel
  currentPlayer,
  moves,                \* the move list
  gameOver,
  gameMode,             \* "ai" | "local"
  aiDifficulty,
  timeControl,          \* [white, black]
  isTimerActive,
  engineEvaluation,     \* hundredths
  bestMove,
  moveClassification,
  liveHints,
  showPostGameAnalysis,
  analysis,             \* what the last generatePostGameAnalysis run consumed
  tasks,                \* pending setTimeout callbacks, each with its render
  interval,             \* the render the running setInterval callback closes over
  ticked,               \* the pending tasks that were pending at the last tick
  epoch,                \* history: number of resets so far
  humanApplied,         \* history: moves applied from a square click
  aiApplied,            \* history: moves applied from a deferred task
  aggCalls,             \* history: aggregator runs since the last reset
  settingsChanged,      \* history: changes made in the settings dialog
  lastEvent,            \* history: the kind of event that led to this state
  allotment,            \* history: the option last chosen in the time select
  probe                 \* one call of a pure function: its arguments and result

sessionVars ==
  <<board, selected, currentPlayer, moves, gameOver, gameMode, aiDifficulty,
    timeControl, isTimerActive, engineEvaluation, bestMove, moveClassification,
    liveHints, showPostGameAnalysis, analysis, tasks, interval, ticked, epoch,
    humanApplied, aiApplied, aggCalls, settingsChanged, lastEvent, allotment>>

vars == <<sessionVars, probe>>

NoSel == <<-1, -1>>
NoMove == [from |-> <<-1, -1>>, to |-> <<-1, -1>>]
NoInterval == [on |-> FALSE]
NoProbe == [op |-> "none", done |-> FALSE]

\* The state values a function created in the current render closes over.
Render ==
  [board |-> board, moves |-> moves, currentPlayer |-> currentPlayer,
   engineEvaluation |-> engineEvaluation, gameMode |-> gameMode,
   aiDifficulty |-> aiDifficulty, timeControl |-> timeControl]

\* The same for the render that commits the next state.
NextRender ==
  [board |-> board', moves |-> moves', currentPlayer |-> currentPlayer',
   engineEvaluation |-> engineEvaluation', gameMode |-> gameMode',
   aiDifficulty |-> aiDifficulty', timeControl |-> timeControl']

\* A variant of the effect below whose cleanup does not call clearInterval:
\* an interval, once created, is only ever replaced.  The exactly-once
\* property of the time-out (C6) depends on the difference.
TimerEffectNoCleanup ==
  interval' =
    IF <<isTimerActive', currentPlayer', gameOver'>> =
       <<isTimerActive, currentPlayer, gameOver>>
    THEN interval
    ELSE IF isTimerActive' /\ ~gameOver'
         THEN [on |-> TRUE, cl |-> NextRender]
         ELSE interval

\* useEffect(..., [isTimerActive, currentPlayer, gameOver]): when a dependency
\* changed in the committed render, the cleanup clears the old interval and,
\* if the timer is active and the game is not over, a new interval is created
\* that closes over the new render.
TimerEffect ==
  interval' =
    IF <<isTimerActive', currentPlayer', gameOver'>> =
       <<isTimerActive, currentPlayer, gameOver>>
    THEN interval
    ELSE IF isTimerActive' /\ ~gameOver'
         THEN [on |-> TRUE, cl |-> NextRender]
         ELSE NoInterval

\* The state after construction, apart from probe.
SessionStart ==
  /\ board = initializeBoard
  /\ selected = NoSel
  /\ currentPlayer = "white"
  /\ moves = <<>>
  /\ gameOver = FALSE
  /\ gameMode = "ai"
  /\ aiDifficulty = "intermediate"
  /\ timeControl = [white |-> TimeAllotment, black |-> TimeAllotment]
  /\ isTimerActive = FALSE
  /\ engineEvaluation = 0
  /\ bestMove = NoMove
  /\ moveClassification = "none"
  /\ liveHints = <<>>
  /\ showPostGameAnalysis = FALSE
  /\ analysis = NoAnalysis
  /\ tasks = {}
  /\ interval = NoInterval
  /\ ticked = {}
  /\ epoch = 0
  /\ humanApplied = 0
  /\ aiApplied = 0
  /\ aggCalls = 0
  /\ settingsChanged = 0
  /\ lastEvent = "init"
  /\ allotment = TimeAllotment

Init ==
  /\ SessionStart
  /\ probe = NoProbe

\* ---------------------------------------------------------------- makeMove
\* The board makeMove builds in the render cl.
NewBoard(cl, fromRow, fromCol, toRow, toCol) ==
  LET piece == [cl.board[fromRow][fromCol] EXCEPT !.moved = TRUE]
  IN  [cl.board EXCEPT ![toRow][toCol] = piece, ![fromRow][fromCol] = Empty]

hasKing(b, player) ==
  \E sq \in Squares :
    /\ b[sq[1]][sq[2]] # Empty
    /\ b[sq[1]][sq[2]].type = "king"
    /\ b[sq[1]][sq[2]].color # player

\* The list setMoves receives: the render's list plus the new record.
NewMoves(cl, moveData) == Append(cl.moves, moveData)

\* Whether makeMove, run in the render cl, ends with the setTimeout call.
SchedulesReply(cl) == cl.gameMode = "ai" /\ cl.currentPlayer = "white"

\* The callback of setTimeout(() => makeAIMove(newBoard), 500): sched is
\* history, the epoch in which the call is made.
Task(cl, newBoard) == [cl |-> cl, arg |-> newBoard, sched |-> epoch]

\* makeMove(fromRow, fromCol, toRow, toCol) run in the render cl0, the piece
\* on the from square being non-null.  timerBase is isTimerActive as the
\* caller leaves it, rest the pending tasks other than the running one.
\* allMoves holds the entries of generateAllPossibleMoves that
\* simulateStockfishAnalysis reads, the first three.
\* (The singleton quantifiers only name values that are used repeatedly.)
makeMove(cl0, fromRow, fromCol, toRow, toCol, timerBase, rest) ==
  \E cl \in {cl0} :
  \E newBoard \in {NewBoard(cl, fromRow, fromCol, toRow, toCol)} :
  \E allMoves \in {FirstMoves(newBoard, cl.currentPlayer, cl.board, 3)} :
  \E newEval \in {Evaluation(newBoard)} :
  \E king \in {hasKing(newBoard, cl.currentPlayer)} :
  LET previousEval == cl.engineEvaluation
      piece == newBoard[toRow][toCol]
      captured == cl.board[toRow][toCol]
      classification == classifyMove(previousEval, newEval, cl.currentPlayer)
      moveData == [piece |-> piece.type,
                   from |-> <<fromRow, fromCol>>,
                   to |-> <<toRow, toCol>>,
                   captured |-> captured,
                   player |-> cl.currentPlayer,
                   pieceColor |-> piece.color,      \* history only
                   classification |-> classification,
                   evaluation |-> newEval]
  IN  /\ board' = newBoard
      /\ engineEvaluation' = newEval
      /\ moves' = NewMoves(cl, moveData)
      /\ moveClassification' = classification
      /\ liveHints' = updateLiveHints(newBoard, cl)
      /\ gameOver' = IF king THEN gameOver ELSE TRUE
      /\ isTimerActive' = IF king THEN timerBase ELSE FALSE
      /\ \E rnd \in (IF king THEN {<<0, 0>>} ELSE RandomDraws(cl)) :
           analysis' = IF king THEN analysis
                       ELSE generatePostGameAnalysis(cl, "checkmate", rnd)
      /\ showPostGameAnalysis' = IF king THEN showPostGameAnalysis ELSE TRUE
      /\ aggCalls' = IF king THEN aggCalls ELSE aggCalls + 1
      /\ currentPlayer' = IF king THEN Other(cl.currentPlayer) ELSE currentPlayer
      /\ tasks' = IF king /\ SchedulesReply(cl)
                  THEN rest \cup {Task(cl, newBoard)}
                  ELSE rest
      /\ IF Len(allMoves) > 0
         THEN \E i \in 1..Min(3, Len(allMoves)) : bestMove' = allMoves[i]
         ELSE bestMove' = bestMove

\* -------------------------------------------------------- handleSquareClick
\* if (!isTimerActive && moves.length === 0) setIsTimerActive(true)
StartTimer == IF ~isTimerActive /\ Len(moves) = 0 THEN TRUE ELSE isTimerActive

\* The two early returns.
ClickIgnored == gameOver \/ (gameMode = "ai" /\ currentPlayer = "black")

\* A variant of the definition below that leaves the selection in place.
\* That an illegal attempt clears the selection (C7) depends on the difference.
SelectionKept(sel) == sel

\* setSelected(null) after the move attempt, legal or not.
SelectionAfterAttempt(sel) == NoSel

handleSquareClick(row, col) ==
  LET piece == IF selected = NoSel THEN board[row][col]
               ELSE board[selected[1]][selected[2]]
      Quiet(sel, kind) ==
        /\ selected' = sel
        /\ isTimerActive' = StartTimer
        /\ lastEvent' = kind
        /\ UNCHANGED <<board, currentPlayer, moves, gameOver, engineEvaluation,
                       bestMove, moveClassification, liveHints,
                       showPostGameAnalysis, analysis, tasks, humanApplied,
                       aggCalls>>
  IN
  /\ IF ClickIgnored
     THEN /\ lastEvent' = "click"
          /\ UNCHANGED <<board, selected, currentPlayer, moves, gameOver,
                         isTimerActive, engineEvaluation, bestMove,
                         moveClassification, liveHints, showPostGameAnalysis,
                         analysis, tasks, humanApplied, aggCalls>>
     ELSE IF selected # NoSel
     THEN IF isValidMoveThrows(selected[1], selected[2], row, col, piece)
          THEN \* TypeError: the handler stops before setSelected(null)
               Quiet(selected, "clickThrow")
          ELSE IF /\ piece # Empty
                  /\ isValidMove(board, selected[1], selected[2], row, col, piece)
          THEN /\ makeMove(Render, selected[1], selected[2], row, col,
                           StartTimer, tasks)
               /\ selected' = SelectionAfterAttempt(selected)
               /\ humanApplied' = humanApplied + 1
               /\ lastEvent' = "humanMove"
          ELSE Quiet(SelectionAfterAttempt(selected), "illegal")
     ELSE IF piece # Empty /\ piece.color = currentPlayer
          THEN Quiet(<<row, col>>, "click")
          ELSE Quiet(selected, "click")
  /\ UNCHANGED <<gameMode, aiDifficulty, timeControl, ticked, epoch,
                 aiApplied, settingsChanged>>
  /\ UNCHANGED <<probe, allotment>>
  /\ TimerEffect

\* ---------------------------------------------------------------- makeAIMove
\* The number of leading candidates makeAIMove reads.
Reads(difficulty) ==
  IF difficulty = "beginner" THEN 4096
  ELSE IF difficulty = "intermediate" THEN 5
  ELSE 1

\* A variant of Choices that ignores the difficulty.  The difficulty tiers of
\* the selector (C15) depend on the difference.
ChoicesAll(difficulty, n) == 1..n

\* The indices makeAIMove may pick in a candidate list of length n.
Choices(difficulty, n) ==
  IF difficulty = "beginner" THEN 1..n
  ELSE IF difficulty = "intermediate" THEN 1..Min(5, n)
  ELSE {1}

\* The setTimeout callback t fires: makeAIMove(t.arg) in the render t.cl.
makeAIMove(t) ==
  \E cl \in {t.cl} :
  \E rest \in {tasks \ {t}} :
  \E allMoves \in {FirstMoves(t.arg, "black", cl.board, Reads(cl.aiDifficulty))} :
  /\ IF Len(allMoves) = 0
     THEN /\ gameOver' = TRUE
          /\ \E rnd \in RandomDraws(cl) :
               analysis' = generatePostGameAnalysis(cl, "checkmate", rnd)
          /\ showPostGameAnalysis' = TRUE
          /\ aggCalls' = aggCalls + 1
          /\ tasks' = rest
          /\ lastEvent' = "aiSkip"
          /\ UNCHANGED <<board, currentPlayer, moves, isTimerActive,
                         engineEvaluation, bestMove, moveClassification,
                         liveHints, aiApplied>>
     ELSE \E i \in Choices(cl.aiDifficulty, Len(allMoves)) :
            LET from == allMoves[i].from
                to == allMoves[i].to
            IN  IF cl.board[from[1]][from[2]] = Empty
                THEN \* piece.moved = true on null: TypeError, nothing is set
                     /\ tasks' = rest
                     /\ lastEvent' = "aiSkip"
                     /\ UNCHANGED <<board, currentPlayer, moves, gameOver,
                                    isTimerActive, engineEvaluation, bestMove,
                                    moveClassification, liveHints,
                                    showPostGameAnalysis, analysis, aggCalls,
                                    aiApplied>>
                ELSE /\ makeMove(cl, from[1], from[2], to[1], to[2],
                                 isTimerActive, rest)
                     /\ aiApplied' = aiApplied + 1
                     /\ lastEvent' = "aiMove"
  /\ ticked' = ticked \ {t}
  /\ UNCHANGED <<selected, gameMode, aiDifficulty, timeControl, epoch,
                 humanApplied, settingsChanged>>
  /\ UNCHANGED <<probe, allotment>>
  /\ TimerEffect

\* ------------------------------------------------------------------ timer tick
\* The setInterval callback: setTimeControl(prev => ...) in the render the
\* effect closed over.  Two ticks are at least 1000 ms apart and a deferred
\* task runs 500 ms after it was scheduled, so a task that was pending at one
\* tick has run before the next tick.
TimerTick ==
  /\ interval.on
  /\ ticked = {}
  /\ ticked' = tasks
  /\ LET cl == interval.cl
         left == Max(0, timeControl[cl.currentPlayer] - 1)
     IN  /\ timeControl' = [timeControl EXCEPT ![cl.currentPlayer] = left]
         /\ IF left = 0
            THEN /\ gameOver' = TRUE
                 /\ isTimerActive' = FALSE
                 /\ \E rnd \in RandomDraws(cl) :
                      analysis' = generatePostGameAnalysis(cl, "time", rnd)
                 /\ showPostGameAnalysis' = TRUE
                 /\ aggCalls' = aggCalls + 1
            ELSE UNCHANGED <<gameOver, isTimerActive, analysis,
                             showPostGameAnalysis, aggCalls>>
  /\ lastEvent' = "tick"
  /\ UNCHANGED <<board, selected, currentPlayer, moves, gameMode, aiDifficulty,
                 engineEvaluation, bestMove, moveClassification, liveHints,
                 tasks, epoch, humanApplied, aiApplied, settingsChanged>>
  /\ UNCHANGED <<probe, allotment>>
  /\ TimerEffect

\* ------------------------------------------------------------------- resetGame
\* What resetGame does to the pending setTimeout callbacks: nothing, it
\* only calls clearInterval.
TasksAfterReset(ts) == ts

\* A variant of the definition below that leaves the stored evaluation as it
\* is.  That the evaluation always belongs to the board (C27) depends on the
\* difference.
EvaluationKept(eval) == eval

\* setEngineEvaluation(0) in resetGame.
EvaluationAfterReset(eval) == 0

resetGame ==
  /\ board' = initializeBoard
  /\ selected' = NoSel
  /\ currentPlayer' = "white"
  /\ moves' = <<>>
  /\ gameOver' = FALSE
  /\ isTimerActive' = FALSE
  /\ timeControl' = [white |-> TimeAllotment, black |-> TimeAllotment]
  /\ liveHints' = <<>>
  /\ showPostGameAnalysis' = FALSE
  /\ engineEvaluation' = EvaluationAfterReset(engineEvaluation)
  /\ moveClassification' = "none"
  /\ interval' = NoInterval      \* clearInterval(timerRef.current)
  /\ tasks' = TasksAfterReset(tasks)
  /\ epoch' = epoch + 1
  /\ aggCalls' = 0
  /\ lastEvent' = "reset"
  /\ UNCHANGED <<gameMode, aiDifficulty, bestMove, analysis, ticked,
                 humanApplied, aiApplied, settingsChanged>>
  /\ UNCHANGED <<probe, allotment>>

\* -------------------------------------------------------------------- settings
setGameMode(m) ==
  /\ m # gameMode
  /\ gameMode' = m
  /\ settingsChanged' = settingsChanged + 1
  /\ lastEvent' = "settings"
  /\ UNCHANGED <<board, selected, currentPlayer, moves, gameOver, aiDifficulty,
                 timeControl, isTimerActive, engineEvaluation, bestMove,
                 moveClassification, liveHints, showPostGameAnalysis, analysis,
                 tasks, interval, ticked, epoch, humanApplied, aiApplied,
                 aggCalls>>
  /\ UNCHANGED <<probe, allotment>>

\* The difficulty select is rendered only in vs-AI mode.
setAiDifficulty(d) ==
  /\ gameMode = "ai"
  /\ d # aiDifficulty
  /\ aiDifficulty' = d
  /\ settingsChanged' = settingsChanged + 1
  /\ lastEvent' = "settings"
  /\ UNCHANGED <<board, selected, currentPlayer, moves, gameOver, gameMode,
                 timeControl, isTimerActive, engineEvaluation, bestMove,
                 moveClassification, liveHints, showPostGameAnalysis, analysis,
                 tasks, interval, ticked, epoch, humanApplied, aiApplied,
                 aggCalls>>
  /\ UNCHANGED <<probe, allotment>>

\* The options of the time-control select, 300, 600, 900 and 1800 seconds, on
\* the scale on which TimeAllotment stands for 600.
TimeOptions ==
  {TimeAllotment \div 2, TimeAllotment, (3 * TimeAllotment) \div 2,
   3 * TimeAllotment}

\* onChange of the time-control select: both clocks are set to the option,
\* whatever they show and whether or not a game is running.  (The select is
\* uncontrolled and shows its first option when the dialog opens, so the
\* first option is reached by a second change; the action stands for the last
\* change made.)
selectTimeControl(seconds) ==
  /\ seconds # allotment
  /\ timeControl' = [white |-> seconds, black |-> seconds]
  /\ allotment' = seconds
  /\ settingsChanged' = settingsChanged + 1
  /\ lastEvent' = "settings"
  /\ UNCHANGED <<board, selected, currentPlayer, moves, gameOver, gameMode,
                 aiDifficulty, isTimerActive, engineEvaluation, bestMove,
                 moveClassification, liveHints, showPostGameAnalysis, analysis,
                 tasks, interval, ticked, epoch, humanApplied, aiApplied,
                 aggCalls>>
  /\ UNCHANGED probe

\* ------------------------------------------------------------ specifications
Plies == humanApplied + aiApplied

\* Squares the user clicks on (row 0 is rank 8): g2, g4, e7, e6.
ClickSquares == {<<6, 6>>, <<4, 6>>, <<1, 4>>, <<2, 4>>}

\* Settings the user chooses from in Spec.
Modes == {"ai", "local"}
Difficulties == {"intermediate", "advanced"}

\* In Spec the settings dialog is used before the first click only.
SettingsOpen ==
  /\ Plies = 0
  /\ epoch = 0
  /\ selected = NoSel
  /\ ~isTimerActive
  /\ settingsChanged < MaxSettings

Click ==
  \E sq \in ClickSquares :
    /\ handleSquareClick(sq[1], sq[2])
    /\ humanApplied' = humanApplied \/ Plies < MaxPlies

FireTask ==
  /\ Plies < MaxPlies
  /\ \E t \in tasks : makeAIMove(t)

Reset ==
  /\ epoch < MaxResets
  /\ resetGame

SetMode ==
  /\ SettingsOpen
  /\ \E m \in Modes : setGameMode(m)

SetDifficulty ==
  /\ SettingsOpen
  /\ \E d \in Difficulties : setAiDifficulty(d)

Next ==
  \/ Click
  \/ FireTask
  \/ TimerTick
  \/ Reset
  \/ SetMode
  \/ SetDifficulty

Spec == Init /\ [][Next]_vars

\* A scripted session: the user sets the difficulty to beginner, switches to
\* local play, plays 1. f3 e6 2. g4 Qh4 for both sides, switches back to
\* vs-AI play and plays 3. g5; the clock and the deferred tasks run freely.
Set(op, arg) == [op |-> op, arg |-> arg]

UserScript ==
  << Set("difficulty", "beginner"), Set("mode", "local"),
     Set("click", <<6, 5>>), Set("click", <<5, 5>>),
     Set("click", <<1, 4>>), Set("click", <<2, 4>>),
     Set("click", <<6, 6>>), Set("click", <<4, 6>>),
     Set("click", <<0, 3>>), Set("click", <<4, 7>>),
     Set("mode", "ai"),
     Set("click", <<4, 6>>), Set("click", <<3, 6>>) >>

\* The inputs made so far, read off the history variables.
ScriptPos ==
  settingsChanged + 2 * humanApplied + (IF selected # NoSel THEN 1 ELSE 0)

ScriptStep(op) ==
  /\ ScriptPos < Len(UserScript)
  /\ UserScript[ScriptPos + 1].op = op

ScriptClick ==
  /\ ScriptStep("click")
  /\ handleSquareClick(UserScript[ScriptPos + 1].arg[1],
                       UserScript[ScriptPos + 1].arg[2])

ScriptSetMode ==
  /\ ScriptStep("mode")
  /\ setGameMode(UserScript[ScriptPos + 1].arg)

ScriptSetDifficulty ==
  /\ ScriptStep("difficulty")
  /\ setAiDifficulty(UserScript[ScriptPos + 1].arg)

ScriptFireTask ==
  /\ Plies < ScriptPlies
  /\ \E t \in tasks : makeAIMove(t)

ScriptNext ==
  \/ ScriptClick
  \/ ScriptSetMode
  \/ ScriptSetDifficulty
  \/ ScriptFireTask
  \/ TimerTick

ScriptSpec == Init /\ [][ScriptNext]_vars

\* A session in which the time-control select is used, at any moment, and at
\* most ClockPlies moves are applied.
ClockSetTime ==
  /\ settingsChanged < MaxSettings
  /\ \E seconds \in TimeOptions : selectTimeControl(seconds)

ClockClick ==
  \E sq \in ClickSquares :
    /\ handleSquareClick(sq[1], sq[2])
    /\ humanApplied' = humanApplied \/ Plies < ClockPlies

ClockFireTask ==
  /\ Plies < ClockPlies
  /\ \E t \in tasks : makeAIMove(t)

ClockNext ==
  \/ ClockSetTime
  \/ ClockClick
  \/ ClockFireTask
  \/ TimerTick

ClockSpec == Init /\ [][ClockNext]_vars

\* A second scripted session, in local play: a game of 41 moves after which
\* black, to move, has the king on h1 behind its own pawns on g1, g2 and h2
\* and nothing else.
\*   1. e4 h5 2. Qg4 h4 3. Qxd7 h3 4. Ne2 hxg2 5. Qxc8 g1 6. Qxb8 g5 7. Qxa8 g4
\*   8. Qxa7 g3 9. Qxb7 gxh2 10. Qxc7 f5 11. Qxd8 f4 12. Qxe7 f3 13. Qxf8 Kf7
\*   14. Qxg8 Kg6 15. Qxh8 Kg5 16. a3 Kg4 17. b3 Kg3 18. c3 Kg2 19. d3 Kxh1
\*   20. Bg2 fxg2 21. a4
EndgameMoves ==
  <<
     <<6, 4, 4, 4>>, <<1, 7, 3, 7>>, <<7, 3, 4, 6>>, <<3, 7, 4, 7>>,
     <<4, 6, 1, 3>>, <<4, 7, 5, 7>>, <<7, 6, 6, 4>>, <<5, 7, 6, 6>>,
     <<1, 3, 0, 2>>, <<6, 6, 7, 6>>, <<0, 2, 0, 1>>, <<1, 6, 3, 6>>,
     <<0, 1, 0, 0>>, <<3, 6, 4, 6>>, <<0, 0, 1, 0>>, <<4, 6, 5, 6>>,
     <<1, 0, 1, 1>>, <<5, 6, 6, 7>>, <<1, 1, 1, 2>>, <<1, 5, 3, 5>>,
     <<1, 2, 0, 3>>, <<3, 5, 4, 5>>, <<0, 3, 1, 4>>, <<4, 5, 5, 5>>,
     <<1, 4, 0, 5>>, <<0, 4, 1, 5>>, <<0, 5, 0, 6>>, <<1, 5, 2, 6>>,
     <<0, 6, 0, 7>>, <<2, 6, 3, 6>>, <<6, 0, 5, 0>>, <<3, 6, 4, 6>>,
     <<6, 1, 5, 1>>, <<4, 6, 5, 6>>, <<6, 2, 5, 2>>, <<5, 6, 6, 6>>,
     <<6, 3, 5, 3>>, <<6, 6, 7, 7>>, <<7, 5, 6, 6>>, <<5, 5, 6, 6>>,
     <<5, 0, 4, 0>> >>

\* The clicks of that game, after the switch to local play.
EndgameScript ==
  <<Set("mode", "local")>> \o
  [i \in 1..(2 * Len(EndgameMoves)) |->
     LET m == EndgameMoves[(i + 1) \div 2]
     IN  IF i % 2 = 1 THEN Set("click", <<m[1], m[2]>>)
         ELSE Set("click", <<m[3], m[4]>>)]

EndgameStep(op) ==
  /\ ScriptPos < Len(EndgameScript)
  /\ EndgameScript[ScriptPos + 1].op = op

EndgameClick ==
  /\ EndgameStep("click")
  /\ handleSquareClick(EndgameScript[ScriptPos + 1].arg[1],
                       EndgameScript[ScriptPos + 1].arg[2])

EndgameSetMode ==
  /\ EndgameStep("mode")
  /\ setGameMode(EndgameScript[ScriptPos + 1].arg)

EndgameNext ==
  \/ EndgameClick
  \/ EndgameSetMode
  \/ TimerTick

EndgameSpec == Init /\ [][EndgameNext]_vars

\* A third scripted session, in local play, in which white takes the king:
\*   1. e4 f6 2. Qh5 a6 3. Qxe8
CaptureMoves ==
  << <<6, 4, 4, 4>>, <<1, 5, 2, 5>>, <<7, 3, 3, 7>>, <<1, 0, 2, 0>>,
     <<3, 7, 0, 4>> >>

CaptureScript ==
  <<Set("mode", "local")>> \o
  [i \in 1..(2 * Len(CaptureMoves)) |->
     LET m == CaptureMoves[(i + 1) \div 2]
     IN  IF i % 2 = 1 THEN Set("click", <<m[1], m[2]>>)
         ELSE Set("click", <<m[3], m[4]>>)]

CaptureStep(op) ==
  /\ ScriptPos < Len(CaptureScript)
  /\ CaptureScript[ScriptPos + 1].op = op

CaptureClick ==
  /\ CaptureStep("click")
  /\ handleSquareClick(CaptureScript[ScriptPos + 1].arg[1],
                       CaptureScript[ScriptPos + 1].arg[2])

CaptureSetMode ==
  /\ CaptureStep("mode")
  /\ setGameMode(CaptureScript[ScriptPos + 1].arg)

CaptureNext ==
  \/ CaptureClick
  \/ CaptureSetMode
  \/ TimerTick

CaptureSpec == Init /\ [][CaptureNext]_vars

\* A fourth scripted session: the user sets the difficulty to beginner, plays
\* 1. d3 e6 2. Qd2 h6 3. Qg5 a6 for both sides in local play, switches to
\* vs-AI play and plays 4. Qxd8; the clock and the deferred tasks run freely.
ExchangeMoves ==
  << <<6, 3, 5, 3>>, <<1, 4, 2, 4>>, <<7, 3, 6, 3>>, <<1, 7, 2, 7>>,
     <<6, 3, 3, 6>>, <<1, 0, 2, 0>>, <<3, 6, 0, 3>> >>

\* The clicks of move n of that game.
ExchangeClicks(n) ==
  << Set("click", <<ExchangeMoves[n][1], ExchangeMoves[n][2]>>),
     Set("click", <<ExchangeMoves[n][3], ExchangeMoves[n][4]>>) >>

ExchangeScript ==
  << Set("difficulty", "beginner"), Set("mode", "local") >>
    \o ExchangeClicks(1) \o ExchangeClicks(2) \o ExchangeClicks(3)
    \o ExchangeClicks(4) \o ExchangeClicks(5) \o ExchangeClicks(6)
    \o << Set("mode", "ai") >> \o ExchangeClicks(7)

ExchangeStep(op) ==
  /\ ScriptPos < Len(ExchangeScript)
  /\ ExchangeScript[ScriptPos + 1].op = op

ExchangeClick ==
  /\ ExchangeStep("click")
  /\ handleSquareClick(ExchangeScript[ScriptPos + 1].arg[1],
                       ExchangeScript[ScriptPos + 1].arg[2])

ExchangeSetMode ==
  /\ ExchangeStep("mode")
  /\ setGameMode(ExchangeScript[ScriptPos + 1].arg)

ExchangeSetDifficulty ==
  /\ ExchangeStep("difficulty")
  /\ setAiDifficulty(ExchangeScript[ScriptPos + 1].arg)

ExchangeFireTask ==
  /\ Plies < ExchangePlies
  /\ \E t \in tasks : makeAIMove(t)

ExchangeNext ==
  \/ ExchangeClick
  \/ ExchangeSetMode
  \/ ExchangeSetDifficulty
  \/ ExchangeFireTask
  \/ TimerTick

ExchangeSpec == Init /\ [][ExchangeNext]_vars

\* -------------------------------------------------- the functions on their own
\* FnSpec calls the pure functions of the component one at a time: Init draws
\* the arguments of one call, the action of that function applies it and
\* keeps the result in probe.  Boards are positions of two sample games
\* played move by move from the initial position (row 0 is rank 8):
\*   1. e4 e5 2. Nf3 Nc6 3. Bc4 Bc5 4. d3 d6
\*   1. e4 d5 2. exd5 Qxd5 3. a4 h5 4. Ra3 Rh6
Games ==
  << << <<6, 4, 4, 4>>, <<1, 4, 3, 4>>, <<7, 6, 5, 5>>, <<0, 1, 2, 2>>,
        <<7, 5, 4, 2>>, <<0, 5, 3, 2>>, <<6, 3, 5, 3>>, <<1, 3, 2, 3>> >>,
     << <<6, 4, 4, 4>>, <<1, 3, 3, 3>>, <<4, 4, 3, 3>>, <<0, 3, 3, 3>>,
        <<6, 0, 4, 0>>, <<1, 7, 3, 7>>, <<7, 0, 5, 0>>, <<0, 7, 2, 7>> >> >>

\* The board after the first n moves of game, each made as handleSquareClick
\* makes it in local play: accepted by isValidMove for a piece of the side to
\* move, applied as makeMove applies it.
RECURSIVE Play(_, _)
Play(game, n) ==
  IF n = 0 THEN initializeBoard
  ELSE IF n > Len(game) THEN Play(game, Len(game))
  ELSE LET prev == Play(game, n - 1)
           m == game[n]
           piece == prev[m[1]][m[2]]
           mover == IF n % 2 = 1 THEN "white" ELSE "black"
       IN  IF /\ piece # Empty
              /\ piece.color = mover
              /\ isValidMove(prev, m[1], m[2], m[3], m[4], piece)
           THEN NewBoard([board |-> prev], m[1], m[2], m[3], m[4])
           ELSE prev

TestBoards == {Play(Games[g], n) : g \in 1..Len(Games), n \in 0..GameLen}

\* generateAllPossibleMoves is called with the render's board or with the
\* board that makeMove has just built from it.
GeneratorBoards ==
  {<<Play(Games[g], n + d), Play(Games[g], n)>> :
     g \in 1..Len(Games), n \in 0..GameLen, d \in {0, 1}}

Colors == {"white", "black"}
AllDifficulties == {"beginner", "intermediate", "advanced"}
PreviousEvals == {-100, 0, 100}

ValidMoveCalls ==
  {[op |-> "isValidMove", board |-> b, from |-> f, to |-> t,
    done |-> FALSE, out |-> FALSE] :
     b \in TestBoards,
     f \in Squares,
     t \in Squares}

GeneratorCalls ==
  {[op |-> "generateAllPossibleMoves", iter |-> bs[1], board |-> bs[2],
    color |-> c, done |-> FALSE, out |-> <<>>] :
     bs \in GeneratorBoards, c \in Colors}

SelectorCalls ==
  {[op |-> "makeAIMove", difficulty |-> d,
    allMoves |-> FirstMoves(initializeBoard, "black", initializeBoard, n),
    done |-> FALSE, pick |-> 0, out |-> NoMove] :
     d \in AllDifficulties, n \in 1..MaxCands}

ClassifierCalls ==
  {[op |-> "classifyMove", previousEval |-> pe, newEval |-> ne, player |-> c,
    done |-> FALSE, out |-> "none", symbol |-> "none"] :
     pe \in PreviousEvals, ne \in (-EvalBound)..EvalBound, c \in Colors}

EvaluatorCalls ==
  {[op |-> "simulateStockfishAnalysis", board |-> b, done |-> FALSE, out |-> 0] :
     b \in TestBoards}

\* A move history of n records, as far as the aggregator reads it: bl
\* blunders, then mi mistakes, then br brilliant moves, the rest good.
History(n, bl, mi, br) ==
  [i \in 1..n |->
     [classification |->
        IF i <= bl THEN "blunder"
        ELSE IF i <= bl + mi THEN "mistake"
        ELSE IF i <= bl + mi + br THEN "brilliant"
        ELSE "good"]]

HistoryLengths == (1..MaxHistory) \cup {2 * MaxHistory + 1}

\* The clocks the aggregator may find: an option of the time select, with
\* white's clock run down or not.
Clocks ==
  {tc \in [white : 0..(3 * TimeAllotment), black : TimeOptions] :
     tc.white \in {0, tc.black}}

AggregatorCalls ==
  {[op |-> "generatePostGameAnalysis", moves |-> History(n, bl, mi, br),
    board |-> b, timeControl |-> tc, done |-> FALSE, out |-> NoAnalysis] :
     n \in HistoryLengths, bl \in 0..3, mi \in 0..2, br \in 0..2,
     b \in {initializeBoard, Play(Games[1], GameLen)}, tc \in Clocks}

FnInit ==
  /\ SessionStart
  /\ \/ probe \in {p \in ValidMoveCalls : p.board[p.from[1]][p.from[2]] # Empty}
     \/ probe \in GeneratorCalls
     \/ probe \in SelectorCalls
     \/ probe \in ClassifierCalls
     \/ probe \in EvaluatorCalls
     \/ probe \in AggregatorCalls

Pending(op) == probe.op = op /\ ~probe.done

CallIsValidMove ==
  /\ Pending("isValidMove")
  /\ probe' = [probe EXCEPT
       !.done = TRUE,
       !.out = isValidMove(probe.board, probe.from[1], probe.from[2],
                           probe.to[1], probe.to[2],
                           probe.board[probe.from[1]][probe.from[2]])]
  /\ UNCHANGED sessionVars

CallGenerateAllPossibleMoves ==
  /\ Pending("generateAllPossibleMoves")
  /\ probe' = [probe EXCEPT
       !.done = TRUE,
       !.out = generateAllPossibleMoves(probe.iter, probe.color, probe.board)]
  /\ UNCHANGED sessionVars

\* The choice of selectedMove in makeAIMove.
CallSelect ==
  /\ Pending("makeAIMove")
  /\ \E i \in Choices(probe.difficulty, Len(probe.allMoves)) :
       probe' = [probe EXCEPT !.done = TRUE, !.pick = i, !.out = probe.allMoves[i]]
  /\ UNCHANGED sessionVars

CallClassifyMove ==
  /\ Pending("classifyMove")
  /\ \E type \in {classifyMove(probe.previousEval, probe.newEval, probe.player)} :
       probe' = [probe EXCEPT !.done = TRUE, !.out = type,
                              !.symbol = classificationSymbol(type)]
  /\ UNCHANGED sessionVars

\* The value simulateStockfishAnalysis returns.
CallEvaluate ==
  /\ Pending("simulateStockfishAnalysis")
  /\ probe' = [probe EXCEPT !.done = TRUE, !.out = Evaluation(probe.board)]
  /\ UNCHANGED sessionVars

\* One run of generatePostGameAnalysis in a render with the history, the
\* board and the clocks of the call.
CallGeneratePostGameAnalysis ==
  /\ Pending("generatePostGameAnalysis")
  /\ \E cl \in {[moves |-> probe.moves, board |-> probe.board,
                 timeControl |-> probe.timeControl]} :
     \E rnd \in RandomDraws(cl) :
       probe' = [probe EXCEPT
         !.done = TRUE,
         !.out = generatePostGameAnalysis(cl, "checkmate", rnd)]
  /\ UNCHANGED sessionVars

FnNext ==
  \/ CallIsValidMove
  \/ CallGenerateAllPossibleMoves
  \/ CallSelect
  \/ CallClassifyMove
  \/ CallEvaluate
  \/ CallGeneratePostGameAnalysis

FnSpec == FnInit /\ [][FnNext]_vars

\* ===================================================================== claims
MoveApplied == lastEvent' \in {"humanMove", "aiMove"}

\* The record the move application appended.
Applied == moves'[Len(moves')]

At(b, sq) == b[sq[1]][sq[2]]

\* C1: between resets the move list is append-only: every move application,
\* human or automated, yields the preceding list plus exactly one record.
C1_AppendOnly ==
  [][MoveApplied =>
       /\ Len(moves') = Len(moves) + 1
       /\ SubSeq(moves', 1, Len(moves)) = moves]_vars

\* C2: a deferred opponent move scheduled before a reset never changes the
\* board, the move list or the side to move of the session after the reset.
C2_ResetCancelsTask ==
  [][\A t \in tasks :
       (t.sched < epoch /\ t \notin tasks')
         => UNCHANGED <<board, moves, currentPlayer>>]_vars

\* C3: a move application changes the session board at its from and to
\* squares only: from becomes empty, to holds the moved piece, the other 62
\* squares keep what they held.
C3_FrameOfMove ==
  [][MoveApplied =>
       /\ At(board, Applied.from) # Empty
       /\ At(board', Applied.from) = Empty
       /\ At(board', Applied.to) = [At(board, Applied.from) EXCEPT !.moved = TRUE]
       /\ \A sq \in Squares \ {Applied.from, Applied.to} :
            At(board', sq) = At(board, sq)]_vars

\* C4: in vs-automated mode a completed human move schedules exactly one
\* deferred reply, an automated reply schedules none, and the automated moves
\* applied never outnumber the human moves applied.
C4_OneReplyPerHumanMove ==
  [][/\ (lastEvent' = "humanMove" /\ gameMode = "ai" /\ ~gameOver')
          => (tasks \subseteq tasks' /\ Cardinality(tasks' \ tasks) = 1)
     /\ lastEvent' = "aiMove" => tasks' \subseteq tasks
     /\ aiApplied' <= humanApplied']_vars

\* C5: once the game is over, the board and the move list do not change
\* again until reset.
C5_FrozenAfterGameOver ==
  [][(gameOver /\ lastEvent' # "reset") => UNCHANGED <<board, moves>>]_vars

IllegalAttempt(row, col) ==
  /\ ~ClickIgnored
  /\ selected # NoSel
  /\ LET piece == At(board, selected)
     IN  IF piece = Empty THEN <<row, col>> = selected
         ELSE ~isValidMove(board, selected[1], selected[2], row, col, piece)

\* C7: an illegal move attempt is a silent no-op: the selection is cleared
\* and nothing else changes (board, move list, side to move, evaluation,
\* classification, hints, game-over flag, clocks).
C7_IllegalIsNoOp ==
  [][\A sq \in Squares :
       (IllegalAttempt(sq[1], sq[2]) /\ handleSquareClick(sq[1], sq[2]))
         => /\ selected' = NoSel
            /\ lastEvent' = "illegal"
            /\ UNCHANGED <<board, moves, currentPlayer, engineEvaluation,
                           moveClassification, liveHints, gameOver,
                           timeControl, isTimerActive, bestMove, tasks,
                           interval, analysis, showPostGameAnalysis>>]_vars

\* An illegal attempt has just been made in a game with moves on the board.
C7_Witness ==
  /\ lastEvent = "illegal"
  /\ selected = NoSel
  /\ Len(moves) > 0

\* C8: the move list is in ply order with movers alternating from white:
\* the record at (0-based) index i moved a white piece iff i is even.
C8_MoversAlternate ==
  \A i \in 1..Len(moves) : (moves[i].pieceColor = "white") <=> ((i - 1) % 2 = 0)

Unmoved(b) == {sq \in Squares : At(b, sq) # Empty /\ ~At(b, sq).moved}

\* C9: hasMoved is monotonic until reset: no step puts a piece with
\* hasMoved = false on a square that did not hold that unmoved piece before.
C9_HasMovedMonotonic ==
  [][lastEvent' # "reset" =>
       \A sq \in Unmoved(board') :
          sq \in Unmoved(board) /\ At(board', sq) = At(board, sq)]_vars

KingOf(b, color) ==
  \E sq \in Squares : At(b, sq) # Empty /\ At(b, sq).type = "king"
                      /\ At(b, sq).color = color

\* C10: a move after which the opposing side has no king ends the game at
\* once (game over set, timer stopped, aggregator run, side to move kept, no
\* reply scheduled); a move that leaves the opposing king on the board does
\* not set game over.
C10_KingCaptureEndsGame ==
  [][MoveApplied =>
       IF KingOf(board', Other(Applied.pieceColor))
       THEN gameOver' = gameOver
       ELSE /\ gameOver'
            /\ ~isTimerActive'
            /\ aggCalls' = aggCalls + 1
            /\ currentPlayer' = currentPlayer
            /\ tasks' \subseteq tasks]_vars

\* ---------------------------------------------------------- generator claims
\* Some entry of generateAllPossibleMoves(iter, color), run in a render whose
\* board is b, has a destination that holds a piece of that color on iter.
OwnDestination(iter, color, b) ==
  LET ms == generateAllPossibleMoves(iter, color, b)
  IN  \E i \in 1..Len(ms) :
        At(iter, ms[i].to) # Empty /\ At(iter, ms[i].to).color = color

\* C11: no call of the move generator that the session makes returns a move
\* whose destination holds, on the board passed to the call, a piece of the
\* color passed to the call.  The calls are the one for the best-move
\* suggestion inside makeMove (on the post-move board, for the mover) and the
\* one of makeAIMove (on the board handed to the deferred task, for black).
C11_NoOwnDestination ==
  [][/\ lastEvent' = "humanMove" => ~OwnDestination(board', currentPlayer, board)
     /\ \A t \in tasks :
          (t \notin tasks' /\ lastEvent' \in {"aiMove", "aiSkip"})
            => ~OwnDestination(t.arg, "black", t.cl.board)]_vars

\* ----------------------------------------------------------- legality claims
\* The call of isValidMove held in probe: its piece, its target square and
\* its geometry.
Piece == At(probe.board, probe.from)
Target == At(probe.board, probe.to)
RowDelta == probe.to[1] - probe.from[1]
ColDelta == probe.to[2] - probe.from[2]
Sgn(x) == IF x > 0 THEN 1 ELSE IF x < 0 THEN -1 ELSE 0
Straight == RowDelta = 0 \/ ColDelta = 0
Diagonal == Abs(RowDelta) = Abs(ColDelta)
OnLine ==
  /\ probe.from # probe.to
  /\ CASE Piece.type = "bishop" -> Diagonal
        [] Piece.type = "rook" -> Straight
        [] Piece.type = "queen" -> Straight \/ Diagonal
        [] OTHER -> FALSE
OwnTarget == Target # Empty /\ Target.color = Piece.color

\* The squares strictly between from and to, for squares on a common line.
Between ==
  {<<probe.from[1] + k * Sgn(RowDelta), probe.from[2] + k * Sgn(ColDelta)>> :
     k \in 1..(Max(Abs(RowDelta), Abs(ColDelta)) - 1)}

Answered(op) == probe.op = op /\ probe.done

\* C12: for a bishop, rook or queen, isValidMove accepts a destination exactly
\* when it lies on a line or diagonal allowed for the kind, does not hold a
\* piece of the same color, and every square strictly between is empty; an
\* occupied square in between causes rejection.  (The path scan ends on every
\* such call: each call in FnSpec yields its value.)
C12_SlidingPath ==
  (Answered("isValidMove") /\ Piece.type \in {"bishop", "rook", "queen"})
    => (probe.out <=> /\ OnLine
                      /\ ~OwnTarget
                      /\ \A sq \in Between : At(probe.board, sq) = Empty)

\* A sliding piece is refused a destination on its line because of a blocker.
C12_Witness ==
  /\ Answered("isValidMove")
  /\ Piece.type \in {"bishop", "rook", "queen"}
  /\ OnLine
  /\ ~OwnTarget
  /\ \E sq \in Between : At(probe.board, sq) # Empty
  /\ ~probe.out

Forward == IF Piece.color = "white" THEN -1 ELSE 1
StartRank == IF Piece.color = "white" THEN 6 ELSE 1

\* C13: for a pawn, isValidMove accepts exactly one step forward onto an empty
\* square, two steps forward from the starting rank over an empty square onto
\* an empty square, and one step diagonally forward onto an enemy piece.
C13_PawnRule ==
  (Answered("isValidMove") /\ Piece.type = "pawn")
    => (probe.out <=>
          \/ /\ ColDelta = 0
             /\ RowDelta = Forward
             /\ Target = Empty
          \/ /\ ColDelta = 0
             /\ RowDelta = 2 * Forward
             /\ probe.from[1] = StartRank
             /\ Target = Empty
             /\ At(probe.board, <<probe.from[1] + Forward, probe.from[2]>>) = Empty
          \/ /\ Abs(ColDelta) = 1
             /\ RowDelta = Forward
             /\ Target # Empty
             /\ Target.color # Piece.color)

\* A pawn on its starting rank is refused the double step over a piece.
C13_Witness ==
  /\ Answered("isValidMove")
  /\ Piece.type = "pawn"
  /\ ColDelta = 0
  /\ RowDelta = 2 * Forward
  /\ probe.from[1] = StartRank
  /\ Target = Empty
  /\ At(probe.board, <<probe.from[1] + Forward, probe.from[2]>>) # Empty
  /\ ~probe.out

\* The place of a move in the order (fromRow, fromCol, toRow, toCol).
Key(m) == ((m.from[1] * 8 + m.from[2]) * 8 + m.to[1]) * 8 + m.to[2]

Allowed(difficulty, n) ==
  CASE difficulty = "advanced" -> {1}
    [] difficulty = "intermediate" -> {i \in 1..n : i <= 5}
    [] difficulty = "beginner" -> 1..n

\* C15: given a non-empty candidate list of length N, the selection made in
\* makeAIMove is the first candidate for advanced, one of the first min(5, N)
\* for intermediate and any of the N for beginner; and before the selection is
\* made, each of these candidates is a possible outcome.
C15_SelectorTiers ==
  probe.op = "makeAIMove"
    => IF probe.done
       THEN /\ probe.pick \in Allowed(probe.difficulty, Len(probe.allMoves))
            /\ probe.out = probe.allMoves[probe.pick]
       ELSE \A i \in Allowed(probe.difficulty, Len(probe.allMoves)) :
              ENABLED (CallSelect /\ probe'.pick = i)

\* Intermediate difficulty, six candidates, the fifth one selected.
C15_Witness ==
  /\ Answered("makeAIMove")
  /\ probe.difficulty = "intermediate"
  /\ Len(probe.allMoves) = 6
  /\ probe.pick = 5

\* --------------------------------------------------------- classifier claims
\* diff of the call of classifyMove held in probe, in hundredths.
Diff ==
  IF probe.player = "white" THEN probe.previousEval - probe.newEval
  ELSE probe.newEval - probe.previousEval

Classified(type, symbol) == probe.out = type /\ probe.symbol = symbol

\* C17: with diff = previousEval - newEval for a white mover and
\* newEval - previousEval for a black mover, classifyMove returns brilliant
\* "!!" for diff < -2, best "!" for -2 <= diff < -0.5, inaccuracy "?" for
\* 0.5 < diff < 1.5, mistake "??" for 1.5 < diff < 3, and good "" for
\* -0.5 <= diff <= 0.5 and for diff = 1.5.
C17_TierTable ==
  Answered("classifyMove")
    => /\ Diff < -200 => Classified("brilliant", "!!")
       /\ (-200 <= Diff /\ Diff < -50) => Classified("best", "!")
       /\ (50 < Diff /\ Diff < 150) => Classified("inaccuracy", "?")
       /\ (150 < Diff /\ Diff < 300) => Classified("mistake", "??")
       /\ ((-50 <= Diff /\ Diff <= 50) \/ Diff = 150) => Classified("good", "")

\* A black mover whose diff is exactly 1.5 gets good.
C17_Witness ==
  /\ Answered("classifyMove")
  /\ probe.player = "black"
  /\ Diff = 150
  /\ Classified("good", "")

\* C18: classifyMove returns blunder "???" for every diff >= 3, diff = 3
\* included.
C18_BlunderFromThree ==
  (Answered("classifyMove") /\ Diff >= 300) => Classified("blunder", "???")

\* The call classifyMove(0.0, -2.5) for a white mover, answered.
C19_Witness ==
  /\ Answered("classifyMove")
  /\ probe.previousEval = 0
  /\ probe.newEval = -250
  /\ probe.player = "white"

\* C19 as stated: classifyMove(0.0, -2.5) for a white mover has diff = 2.5 and
\* returns blunder "???".
C19_AsStated ==
  C19_Witness => (Diff = 250 /\ Classified("blunder", "???"))

\* C19, amended: classifyMove(0.0, -2.5) for a white mover has diff = 2.5 and
\* returns mistake "??".
C19_LossOfTwoAndAHalf ==
  C19_Witness => (Diff = 250 /\ Classified("mistake", "??"))

\* ---------------------------------------------------------- evaluator claims
Count(b, type, color) ==
  Cardinality({sq \in Squares : At(b, sq).type = type /\ At(b, sq).color = color})

Signed(b, type) == Count(b, type, "white") - Count(b, type, "black")

\* Sum of the signed piece values: pawn 1, knight 3, bishop 3, rook 5, queen 9.
Material(b) ==
  Signed(b, "pawn") + 3 * Signed(b, "knight") + 3 * Signed(b, "bishop")
    + 5 * Signed(b, "rook") + 9 * Signed(b, "queen")

CenterSquares == {<<3, 3>>, <<3, 4>>, <<4, 3>>, <<4, 4>>}

UnmovedKnights(b, sqs) ==
  Cardinality({sq \in sqs : At(b, sq).type = "knight" /\ ~At(b, sq).moved})

\* In tenths: 0.3 per center square (white +, black -), -0.2 per unmoved
\* knight on b1/g1, +0.2 per unmoved knight on b8/g8.
Positional(b) ==
  3 * Cardinality({sq \in CenterSquares : At(b, sq).color = "white"})
    - 3 * Cardinality({sq \in CenterSquares : At(b, sq).color = "black"})
    - 2 * UnmovedKnights(b, {<<7, 1>>, <<7, 6>>})
    + 2 * UnmovedKnights(b, {<<0, 1>>, <<0, 6>>})

\* C20: the evaluation is (material + positional) / 10, here in hundredths
\* 10 * material + positional in tenths; the initial board evaluates to 0 and
\* the board after e2-e4 from the initial position to +0.03.
C20_EvaluationFormula ==
  Answered("simulateStockfishAnalysis")
    => /\ probe.out = 10 * Material(probe.board) + Positional(probe.board)
       /\ probe.board = initializeBoard => probe.out = 0
       /\ probe.board = Play(Games[1], 1) => probe.out = 3

\* The evaluation of the board after e2-e4 has been computed.
C20_Witness ==
  /\ Answered("simulateStockfishAnalysis")
  /\ probe.board = Play(Games[1], 1)
  /\ At(probe.board, <<4, 4>>) = [type |-> "pawn", color |-> "white", moved |-> TRUE]
  /\ probe.out = 3

\* ------------------------------------------------------------ no legal move
\* The move generator finds no move for the side to move on the session board.
NoLegalMove == Len(FirstMoves(board, currentPlayer, board, 1)) = 0

\* C16: whenever the side to move has no legal move the game is over, for
\* either color and in both game modes.
C16_NoMoveEndsGame == NoLegalMove => gameOver

\* ------------------------------------------------- knight-development term
\* The board with the colors of all pieces swapped and the rows mirrored.
Mirror(b) ==
  [r \in Rows |-> [c \in Cols |->
     IF b[7 - r][c] = Empty THEN Empty
     ELSE [b[7 - r][c] EXCEPT !.color = Other(b[7 - r][c].color)]]]

WhiteHome == {<<7, 1>>, <<7, 6>>}
BlackHome == {<<0, 1>>, <<0, 6>>}

\* What is left of an evaluation (hundredths) once material and the center
\* squares are taken out: the knight-development term.
KnightTerm(b, out) ==
  out - 10 * Material(b)
      - 3 * Cardinality({sq \in CenterSquares : At(b, sq).color = "white"})
      + 3 * Cardinality({sq \in CenterSquares : At(b, sq).color = "black"})

\* The evaluator has been run on a board on which the two colors have
\* different numbers of unmoved knights on their original squares.
C21_Witness ==
  /\ Answered("simulateStockfishAnalysis")
  /\ UnmovedKnights(probe.board, WhiteHome) = 1
  /\ UnmovedKnights(probe.board, BlackHome) = 2
  /\ Mirror(probe.board) # probe.board

\* C21 as stated: an unmoved knight on its original square moves the
\* evaluation in black's favor (downwards), whichever color it has, so that
\* the evaluation is not antisymmetric under swapping all piece colors and
\* mirroring the rows.
C21_AsStated ==
  Answered("simulateStockfishAnalysis")
    => /\ KnightTerm(probe.board, probe.out) =
            - 2 * UnmovedKnights(probe.board, WhiteHome)
            - 2 * UnmovedKnights(probe.board, BlackHome)
       /\ (UnmovedKnights(probe.board, WhiteHome)
             + UnmovedKnights(probe.board, BlackHome) > 0)
            => probe.out # - Evaluation(Mirror(probe.board))

\* C21, amended: an unmoved white knight on its original square moves the
\* evaluation by 0.02 in black's favor and an unmoved black knight on its
\* original square moves it by 0.02 in white's favor: each color is penalized
\* for its own undeveloped knight, and the evaluation is antisymmetric under
\* swapping all piece colors and mirroring the rows.
C21_KnightTermAntisymmetric ==
  Answered("simulateStockfishAnalysis")
    => /\ KnightTerm(probe.board, probe.out) =
            - 2 * UnmovedKnights(probe.board, WhiteHome)
            + 2 * UnmovedKnights(probe.board, BlackHome)
       /\ probe.out = - Evaluation(Mirror(probe.board))

\* --------------------------------------------------------- aggregator claims
\* C22: whenever the aggregator has run on an empty move history (the clock
\* was started by a click and ran out before any move), the accuracy it
\* computed is a number between 0 and 100: the division by totalMoves = 0 is
\* guarded.
C22_EmptyHistoryGuarded ==
  (analysis.endReason # "none" /\ analysis.totalMoves = 0)
    => /\ ~analysis.accuracy.nan
       /\ analysis.accuracy.tenths \in 0..1000

\* C23: a run of the aggregator consumes the full move history: its
\* totalMoves and its brilliant, mistake and blunder counts are those of the
\* final move list, the move that ended the game included, and its
\* undeveloped-piece count is that of the final board.
C23_FullHistoryConsumed ==
  [][aggCalls' = aggCalls + 1 =>
       /\ analysis'.totalMoves = Len(moves')
       /\ analysis'.brilliantCount = CountType(moves', "brilliant")
       /\ analysis'.mistakeCount = CountType(moves', "mistake")
       /\ analysis'.blunderCount = CountType(moves', "blunder")
       /\ analysis'.undeveloped = countUndevelopedPieces(board', "white")]_vars

\* The run of the aggregator held in probe: what it was given and what it set.
Total == Len(probe.moves)
Blunders == CountType(probe.moves, "blunder")
Mistakes == CountType(probe.moves, "mistake")
Brilliants == CountType(probe.moves, "brilliant")
Listed(seq, area) == \E i \in 1..Len(seq) : seq[i] = area

\* C24: for every non-empty move history, accuracy is
\* (totalMoves - blunderCount - mistakeCount) / totalMoves x 100 to one
\* decimal, "Tactical Awareness" and "Tactical Training" are present iff
\* blunderCount > 2, "Strategic Vision" iff brilliantCount > 1 and
\* "Consistency" iff accuracy > 80, strictly: 20 moves with 3 blunders and 1
\* mistake give 80.0 and no "Consistency".
C24_AggregatorRules ==
  (Answered("generatePostGameAnalysis") /\ Total > 0)
    => /\ ~probe.out.accuracy.nan
       /\ 2 * Total * probe.out.accuracy.tenths
            <= 2000 * (Total - Blunders - Mistakes) + Total
       /\ 2000 * (Total - Blunders - Mistakes) + Total
            < 2 * Total * (probe.out.accuracy.tenths + 1)
       /\ Listed(probe.out.weaknesses, "Tactical Awareness") <=> Blunders > 2
       /\ Listed(probe.out.recommendations, "Tactical Training") <=> Blunders > 2
       /\ Listed(probe.out.strengths, "Strategic Vision") <=> Brilliants > 1
       /\ Listed(probe.out.strengths, "Consistency")
            <=> 100 * (Total - Blunders - Mistakes) > 80 * Total
       /\ (Total = 20 /\ Blunders = 3 /\ Mistakes = 1)
            => /\ probe.out.accuracy.tenths = 800
               /\ ~Listed(probe.out.strengths, "Consistency")

\* The aggregator has run on 20 moves with 3 blunders and 1 mistake.
C24_Witness ==
  /\ Answered("generatePostGameAnalysis")
  /\ Total = 20
  /\ Blunders = 3
  /\ Mistakes = 1
  /\ probe.out.accuracy = Fixed1(800)
  /\ Listed(probe.out.weaknesses, "Tactical Awareness")

Percentage(x) == x \in 0..100

\* C25: each of the five performance scores a run of the aggregator stores is
\* a percentage between 0 and 100, whichever option of the time select was
\* chosen, and timeManagement is white's remaining time divided by the chosen
\* allotment, times 100.
C25_ScoresArePercentages ==
  [][aggCalls' = aggCalls + 1 =>
       /\ Percentage(analysis'.performanceStats.tacticalAccuracy)
       /\ Percentage(analysis'.performanceStats.positionalAwareness)
       /\ Percentage(analysis'.performanceStats.endgameSkill)
       /\ Percentage(analysis'.performanceStats.openingKnowledge)
       /\ Percentage(analysis'.performanceStats.timeManagement)
       /\ analysis'.performanceStats.timeManagement =
            (100 * timeControl'.white) \div allotment']_vars

\* ---------------------------------------------------------------- hint claims
\* The squares of color's pieces onto which some opposing piece has a legal
\* move on the board b.
Threatened(b, color) ==
  {sq \in Squares :
     /\ At(b, sq) # Empty
     /\ At(b, sq).color = color
     /\ \E foe \in Squares :
          /\ At(b, foe) # Empty
          /\ At(b, foe).color # color
          /\ isValidMove(b, foe[1], foe[2], sq[1], sq[2], At(b, foe))}

TacticalHints(hints) == {i \in 1..Len(hints) : hints[i].type = "tactical"}

\* C26: after each applied move the tactical hint is emitted iff at least one
\* piece of the mover is threatened on the new board, and the count it names
\* is the number of distinct threatened pieces of the mover.
C26_TacticalHint ==
  [][MoveApplied =>
       LET n == Cardinality(Threatened(board', Applied.pieceColor))
       IN  /\ (TacticalHints(liveHints') # {}) <=> n > 0
           /\ \A i \in TacticalHints(liveHints') : liveHints'[i].count = n]_vars

C28_BestMoveForSideToMove ==
  [][MoveApplied =>
       LET cands == FirstMoves(board', currentPlayer', board', 3)
       IN  Len(cands) > 0 => \E i \in 1..Len(cands) : bestMove' = cands[i]]_vars

\* ------------------------------------------------------------ mover and turn
\* C29: the mover color of every move record is the color of the piece that
\* was moved, for human moves and automated replies alike, and the record's
\* classification is the one for the change of the evaluation seen from that
\* color.
C29_MoverIsPieceColor ==
  [][MoveApplied =>
       /\ Applied.player = Applied.pieceColor
       /\ Applied.classification =
            classifyMove(engineEvaluation, Applied.evaluation,
                         Applied.pieceColor)]_vars

\* C30: after a move application that does not end the game the side to move
\* is the opponent of the piece just moved; in vs-automated mode, once the
\* automated reply has been applied it is white's turn and the next click is
\* not ignored, so that a legal human move is accepted: the session does not
\* stay with black to move.
C30_TurnPassesToOpponent ==
  [][/\ (MoveApplied /\ ~gameOver')
          => currentPlayer' = Other(Applied.pieceColor)
     /\ (lastEvent' = "aiMove" /\ gameMode' = "ai" /\ ~gameOver')
          => /\ currentPlayer' = "white"
             /\ ~ClickIgnored']_vars

\* ------------------------------------------------------------ range of tiers
\* C31: in every session a single applied move changes the stored evaluation
\* by less than 1.5 in absolute value, so the tier of every record is good,
\* best or inaccuracy: brilliant, mistake and blunder never occur in a move
\* list, the blunder and mistake counts of the aggregator are always 0 and the
\* "Tactical Awareness" weakness is never produced.
C31_SmallSteps ==
  [][/\ MoveApplied =>
          /\ Abs(engineEvaluation' - engineEvaluation) < 150
          /\ Applied.classification \in {"good", "best", "inaccuracy"}
     /\ \A i \in 1..Len(moves') :
          moves'[i].classification \in {"good", "best", "inaccuracy"}
     /\ analysis'.blunderCount = 0
     /\ analysis'.mistakeCount = 0
     /\ ~Listed(analysis'.weaknesses, "Tactical Awareness")]_vars

\* ------------------------------------------------------------------- winner
\* The side the game-over banner names: the opposite of the side to move.
AnnouncedWinner == Other(currentPlayer)

\* The last record of the move list took a king.
EndedByCapture ==
  /\ Len(moves) > 0
  /\ moves[Len(moves)].captured.type = "king"

\* C32: whenever the game is over the announced winner is the side that did
\* not lose: the side that took the king when the game ended by capture, the
\* side whose clock did not reach zero when it ended on time.
C32_WinnerDidNotLose ==
  gameOver
    => /\ EndedByCapture => AnnouncedWinner = moves[Len(moves)].pieceColor
       /\ (analysis.endReason = "time" /\ ~EndedByCapture)
            => timeControl[AnnouncedWinner] # 0
====
